---- MODULE Spec2Model ----
(***************************************************************************)
(* A model of spotify.py (the WeeChat "spotify_np" script): the credential *)
(* store (load_credentials / save_refresh_token), the token manager        *)
(* (SpotifyClient), the track formatter (format_track_info) and the /np    *)
(* command handler (np_command_cb).                                        *)
(*                                                                         *)
(* Python exceptions are modelled as a result whose "ret"/"kind" field is  *)
(* "raise"; the remote service, the file contents and the clock are inputs *)
(* drawn from small sets.                                                  *)
(***************************************************************************)
EXTENDS Integers, Sequences, FiniteSets, TLC

VARIABLES
    spotify,        \* TRUE: the global client was constructed; FALSE: it is None
    access_token,   \* SpotifyClient.access_token (None or a token)
    expires_at,     \* SpotifyClient.expires_at (seconds)
    refresh_token,  \* SpotifyClient.refresh_token
    credFile,       \* contents of CREDENTIALS_PATH
    cacheFile,      \* contents of CACHE_PATH
    now,            \* time.time()
    call,           \* what the last call did (its inputs, pre-state, effects, result)
    track_data,     \* formatter harness: the argument of format_track_info
    formatted       \* formatter harness: the value format_track_info returned

vars == <<spotify, access_token, expires_at, refresh_token, credFile, cacheFile,
          now, call, track_data, formatted>>

----------------------------------------------------------------------------
(* Bounds and program constants *)

\* the clock is advanced at most MaxTicks times
MaxTicks == 2
\* the formatter is checked on artist lists of at most MaxArtists entries
MaxArtists == 2
\* get_current_track refreshes when time.time() > expires_at - 60
SafetyMargin == 60

None == "None"
\* the clock advances by one of these steps
ClockSteps == {30}

----------------------------------------------------------------------------
(* JSON objects as the json module reads and writes them.  The text of an  *)
(* object is a sequence of <<key, value>> members, possibly with a key     *)
(* repeated; a dict is such a sequence with no key repeated.               *)

DictHas(d, k) == \E i \in 1..Len(d) : d[i][1] = k

DictGet(d, k) == d[CHOOSE i \in 1..Len(d) : d[i][1] = k][2]

DictKeys(d) == {d[i][1] : i \in 1..Len(d)}

\* d[k] = v : an existing key keeps its position, a new key is appended
DictSet(d, k, v) ==
    IF DictHas(d, k)
    THEN [i \in 1..Len(d) |-> IF d[i][1] = k THEN <<k, v>> ELSE d[i]]
    ELSE Append(d, <<k, v>>)

\* json.load: members are inserted in order, so a repeated key keeps its
\* first position and its last value
RECURSIVE JsonLoad(_)
JsonLoad(members) ==
    IF members = <<>> THEN <<>>
    ELSE LET n == Len(members)
         IN  DictSet(JsonLoad(SubSeq(members, 1, n - 1)), members[n][1], members[n][2])

\* json.dump: the members of the dict in insertion order
JsonDump(d) == [i \in 1..Len(d) |-> <<d[i][1], d[i][2]>>]

\* A file is missing, holds text that is not JSON, or holds a JSON object
MissingFile == [kind |-> "missing", members |-> <<>>]
MalformedFile == [kind |-> "malformed", members |-> <<>>]
JsonFile(members) == [kind |-> "json", members |-> members]

\* The cache file: absent, or plain text
NoCache == [exists |-> FALSE, text |-> ""]
CacheText(t) == [exists |-> TRUE, text |-> t]

\* str.strip() on the texts the cache file holds here
Strip(t) == IF t = "rt0\n" THEN "rt0" ELSE t

----------------------------------------------------------------------------
(* CredentialStore *)

\* load_credentials(): ok, or an exception (re-raised after logging)
load_credentials(cred, cache) ==
    IF cred.kind # "json" THEN [ok |-> FALSE, refresh_token |-> None]
    ELSE LET credentials == JsonLoad(cred.members)
         IN  IF ~DictHas(credentials, "client_id") \/ ~DictHas(credentials, "client_secret")
             THEN [ok |-> FALSE, refresh_token |-> None]
             ELSE LET fromFile == IF DictHas(credentials, "refresh_token")
                                  THEN DictGet(credentials, "refresh_token") ELSE ""
                      tok == IF fromFile = "" /\ cache.exists
                             THEN Strip(cache.text) ELSE fromFile
                  IN  IF DictGet(credentials, "client_id") = ""
                         \/ DictGet(credentials, "client_secret") = ""
                         \/ tok = ""
                      THEN [ok |-> FALSE, refresh_token |-> None]
                      ELSE [ok |-> TRUE, refresh_token |-> tok]

\* save_refresh_token assigning refresh_token whether or not the file has it
save_refresh_token_AddsKey(cred, cache, token) ==
    IF cred.kind # "json"
    THEN [cred |-> cred, cache |-> cache, logs |-> <<"Error saving refresh token">>]
    ELSE LET credentials == JsonLoad(cred.members)
         IN  [cred |-> JsonFile(JsonDump(DictSet(credentials, "refresh_token", token))),
              cache |-> CacheText(token), logs |-> <<>>]

\* save_refresh_token(token): the files afterwards and the lines logged.
\* An exception opening or parsing the credentials file skips the cache write.
save_refresh_token(cred, cache, token) ==
    IF cred.kind # "json"
    THEN [cred |-> cred, cache |-> cache, logs |-> <<"Error saving refresh token">>]
    ELSE LET credentials == JsonLoad(cred.members)
             written == IF DictHas(credentials, "refresh_token")
                        THEN JsonFile(JsonDump(DictSet(credentials, "refresh_token", token)))
                        ELSE cred
         IN  [cred |-> written, cache |-> CacheText(token), logs |-> <<>>]

----------------------------------------------------------------------------
(* Values exchanged with the remote service *)

NoneValue == [kind |-> "None"]

\* --- token endpoint responses (requests.post) ---
TokenNetFail ==
    [kind |-> "netfail", status |-> 0, json |-> FALSE, has |-> {},
     access_token |-> None, expires_in |-> 0, refresh_token |-> None, error |-> None]

\* an HTTP response whose body is not JSON
TokenNonJson(status) ==
    [kind |-> "http", status |-> status, json |-> FALSE, has |-> {},
     access_token |-> None, expires_in |-> 0, refresh_token |-> None, error |-> None]

\* HTTP 200 with a JSON object holding the keys in has
TokenOk(has, at, ei, rt) ==
    [kind |-> "http", status |-> 200, json |-> TRUE, has |-> has,
     access_token |-> IF "access_token" \in has THEN at ELSE None,
     expires_in |-> IF "expires_in" \in has THEN ei ELSE 0,
     refresh_token |-> IF "refresh_token" \in has THEN rt ELSE None,
     error |-> None]

\* an HTTP error with a JSON object; err = None: the object has no "error" key
TokenErr(status, err) ==
    [kind |-> "http", status |-> status, json |-> TRUE,
     has |-> IF err = None THEN {} ELSE {"error"},
     access_token |-> None, expires_in |-> 0, refresh_token |-> None, error |-> err]

\* the responses the token endpoint gives here: no response at all, bodies
\* that are not JSON, complete grants, grants without a new refresh_token,
\* grants lacking expires_in or access_token, and errors
TokenResponses ==
    {TokenNetFail, TokenNonJson(200), TokenNonJson(400),
     TokenOk({"access_token", "expires_in", "refresh_token"}, "at1", 60, "rt1"),
     TokenOk({"access_token", "expires_in", "refresh_token"}, "at2", 120, "rt1"),
     TokenOk({"access_token", "expires_in"}, "at1", 120, None),
     TokenOk({"access_token", "refresh_token"}, "at2", 0, "rt1"),
     TokenOk({"access_token"}, "at2", 0, None),
     TokenOk({"expires_in"}, None, 60, None),
     TokenErr(400, "invalid_grant"),
     TokenErr(400, "invalid_client"),
     TokenErr(400, None)}

\* the filler recorded when a call made no request
NoRequest == [kind |-> "none"]

\* --- track payloads (the JSON of the currently-playing endpoint) ---
Album(has, name) ==
    [has |-> has, name |-> IF "name" \in has THEN name ELSE ""]

ExternalUrls(has, url) ==
    [has |-> has, spotify |-> IF "spotify" \in has THEN url ELSE ""]

NullItem == [kind |-> "null"]

Item(has, name, album, artists, urls, duration_ms) ==
    [kind |-> "dict", has |-> has,
     name |-> IF "name" \in has THEN name ELSE "",
     album |-> IF "album" \in has THEN album ELSE Album({}, ""),
     artists |-> IF "artists" \in has THEN artists ELSE <<>>,
     external_urls |-> IF "external_urls" \in has THEN urls ELSE ExternalUrls({}, ""),
     duration_ms |-> IF "duration_ms" \in has THEN duration_ms ELSE 0]

EmptyItem == Item({}, "", Album({}, ""), <<>>, ExternalUrls({}, ""), 0)

TrackData(has, is_playing, progress_ms, item) ==
    [kind |-> "dict", has |-> has,
     is_playing |-> IF "is_playing" \in has THEN is_playing ELSE FALSE,
     progress_ms |-> IF "progress_ms" \in has THEN progress_ms ELSE 0,
     item |-> IF "item" \in has THEN item ELSE EmptyItem]

\* the dict literal {"is_playing": False}
IsPlayingFalse == TrackData({"is_playing"}, FALSE, 0, EmptyItem)

\* the {} of an empty JSON object
EmptyTrackData == TrackData({}, FALSE, 0, EmptyItem)

\* the payload of the formatting example
ExampleItem ==
    Item({"name", "album", "artists", "external_urls", "duration_ms"}, "X",
         Album({"name"}, "A"), <<"B", "C">>, ExternalUrls({"spotify"}, "u"), 185000)

ExampleTrack == TrackData({"is_playing", "progress_ms", "item"}, TRUE, 65000, ExampleItem)

\* --- resource endpoint responses (requests.get) ---
GetNetFail == [kind |-> "netfail", status |-> 0, json |-> FALSE, body |-> NoneValue]
GetNonJson(status) == [kind |-> "http", status |-> status, json |-> FALSE, body |-> NoneValue]
GetJson(status, body) == [kind |-> "http", status |-> status, json |-> TRUE, body |-> body]
\* 204 No Content carries no body
Get204 == [kind |-> "http", status |-> 204, json |-> FALSE, body |-> NoneValue]

NpPayloads ==
    {IsPlayingFalse, EmptyTrackData, ExampleTrack,
     TrackData({"item"}, FALSE, 0, ExampleItem),
     TrackData({"is_playing", "item"}, TRUE, 0, NullItem)}

GetResponses ==
    {GetNetFail, GetNonJson(200), Get204, GetJson(401, NoneValue)}
    \cup {GetJson(200, p) : p \in NpPayloads}

----------------------------------------------------------------------------
(* TokenManager (class SpotifyClient).  m is the mutable state a call may  *)
(* change: the client's fields and the two files.  A call yields an effect *)
(* record: the state afterwards, what was returned ("raise": an exception  *)
(* left the function), the requests and calls made in order, the lines     *)
(* logged, and which fields were assigned.                                 *)

Machine(at, ea, rt, cred, cache) ==
    [access_token |-> at, expires_at |-> ea, refresh_token |-> rt,
     cred |-> cred, cache |-> cache]

Effect(m, ret) ==
    [m |-> m, ret |-> ret, events |-> <<>>, logs |-> <<>>, chat |-> <<>>,
     wroteAccess |-> FALSE, wroteExpires |-> FALSE, saved |-> <<>>,
     tokResp |-> NoRequest, getResp |-> NoRequest, getToken |-> None,
     refreshRet |-> "not called", result |-> NoneValue]

\* start_authentication(): logs the URL and the instruction, tries the browser;
\* a failure of webbrowser.open is caught and logged
start_authentication(e, browserOk) ==
    [e EXCEPT !.events = @ \o <<"start_authentication">>,
              !.logs = @ \o <<"Please visit this URL to authenticate",
                              "After authorization, run /spotify_set_token">>
                         \o (IF browserOk THEN <<>>
                             ELSE <<"Could not open browser automatically">>)]

\* the call save_refresh_token(self.refresh_token) made by the client
SaveStep(e, token) ==
    LET s == save_refresh_token(e.m.cred, e.m.cache, token)
    IN  [e EXCEPT !.m.cred = s.cred, !.m.cache = s.cache,
                  !.events = @ \o <<"save_refresh_token">>,
                  !.logs = @ \o s.logs,
                  !.saved = @ \o <<token>>]

\* exchange_code_for_token(code)
exchange_code_for_token(m, t, resp) ==
    LET posted == [Effect(m, "raise") EXCEPT !.events = <<"POST authorization_code">>,
                                             !.tokResp = resp]
    IN  IF resp.kind = "netfail" THEN posted
        ELSE IF resp.status = 200
        THEN IF ~resp.json THEN posted
             ELSE IF "access_token" \notin resp.has THEN posted
             ELSE LET a == [posted EXCEPT !.m.access_token = resp.access_token,
                                          !.wroteAccess = TRUE]
                  IN  IF "refresh_token" \notin resp.has THEN a
                      ELSE LET r == [a EXCEPT !.m.refresh_token = resp.refresh_token]
                           IN  IF "expires_in" \notin resp.has THEN r
                               ELSE LET x == [r EXCEPT !.m.expires_at = t + resp.expires_in,
                                                       !.wroteExpires = TRUE]
                                        sv == SaveStep(x, x.m.refresh_token)
                                    IN  [sv EXCEPT !.logs = @ \o <<"Successfully authenticated with Spotify!">>,
                                                   !.ret = "true"]
        ELSE [posted EXCEPT !.logs = <<"Error getting token">>, !.ret = "false"]

\* refresh_access_token()
refresh_access_token(m, t, resp, browserOk) ==
    LET posted == [Effect(m, "raise") EXCEPT !.events = <<"POST refresh_token">>,
                                             !.tokResp = resp]
    IN  IF resp.kind = "netfail" THEN posted
        ELSE IF resp.status = 200
        THEN IF ~resp.json THEN posted
             ELSE IF "access_token" \notin resp.has THEN posted
             ELSE LET a == [posted EXCEPT !.m.access_token = resp.access_token,
                                          !.wroteAccess = TRUE]
                  IN  IF "expires_in" \notin resp.has THEN a
                      ELSE LET x == [a EXCEPT !.m.expires_at = t + resp.expires_in,
                                              !.wroteExpires = TRUE]
                               y == IF "refresh_token" \in resp.has
                                    THEN SaveStep([x EXCEPT !.m.refresh_token = resp.refresh_token],
                                                  resp.refresh_token)
                                    ELSE x
                           IN  [y EXCEPT !.ret = "true"]
        ELSE LET logged == [posted EXCEPT !.logs = <<"Error refreshing token">>]
             IN  IF ~resp.json THEN logged
                 ELSE IF "error" \in resp.has /\ resp.error = "invalid_grant"
                 THEN [start_authentication(
                          [logged EXCEPT !.logs = @ \o <<"Refresh token invalid - need to reauthenticate">>],
                          browserOk)
                       EXCEPT !.ret = "false"]
                 ELSE [logged EXCEPT !.ret = "false"]

\* NeedsRefresh with the comparison turned around
NeedsRefresh_Inverted(m, t) ==
    m.access_token = None \/ t < m.expires_at - SafetyMargin

\* the test of line 153: not self.access_token or time.time() > self.expires_at - 60
NeedsRefresh(m, t) ==
    m.access_token = None \/ t > m.expires_at - SafetyMargin

\* FetchTrack without the 204 branch: 204 falls to the error branch
FetchTrack_No204(e, getResp) ==
    LET sent == [e EXCEPT !.events = @ \o <<"GET currently-playing">>,
                          !.getResp = getResp,
                          !.getToken = e.m.access_token,
                          !.ret = "return"]
    IN  IF getResp.kind = "netfail"
        THEN [sent EXCEPT !.logs = @ \o <<"Network error">>, !.result = NoneValue]
        ELSE IF getResp.status = 200
        THEN IF getResp.json
             THEN [sent EXCEPT !.result = getResp.body]
             ELSE [sent EXCEPT !.logs = @ \o <<"Network error">>, !.result = NoneValue]
        ELSE [sent EXCEPT !.logs = @ \o <<"API error">>, !.result = NoneValue]

\* the requests.get of get_current_track and what is made of the response
FetchTrack(e, getResp) ==
    LET sent == [e EXCEPT !.events = @ \o <<"GET currently-playing">>,
                          !.getResp = getResp,
                          !.getToken = e.m.access_token,
                          !.ret = "return"]
    IN  IF getResp.kind = "netfail"
        THEN [sent EXCEPT !.logs = @ \o <<"Network error">>, !.result = NoneValue]
        ELSE IF getResp.status = 200
        THEN IF getResp.json
             THEN [sent EXCEPT !.result = getResp.body]
             ELSE [sent EXCEPT !.logs = @ \o <<"Network error">>, !.result = NoneValue]
        ELSE IF getResp.status = 204
        THEN [sent EXCEPT !.result = TrackData({"is_playing"}, FALSE, 0, EmptyItem)]
        ELSE [sent EXCEPT !.logs = @ \o <<"API error">>, !.result = NoneValue]

\* get_current_track()
get_current_track(m, t, tokResp, getResp, browserOk) ==
    IF NeedsRefresh(m, t)
    THEN LET r0 == refresh_access_token(m, t, tokResp, browserOk)
             r == [r0 EXCEPT !.refreshRet = r0.ret]
         IN  IF r.ret = "raise" THEN r
             ELSE IF r.ret = "false" THEN [r EXCEPT !.ret = "return", !.result = NoneValue]
             ELSE FetchTrack(r, getResp)
    ELSE FetchTrack(Effect(m, "return"), getResp)

----------------------------------------------------------------------------
(* TrackFormatter (format_track_info) *)

Digit(d) ==
    CASE d = 0 -> "0" [] d = 1 -> "1" [] d = 2 -> "2" [] d = 3 -> "3" [] d = 4 -> "4"
      [] d = 5 -> "5" [] d = 6 -> "6" [] d = 7 -> "7" [] d = 8 -> "8" [] d = 9 -> "9"

\* the decimal digits of a natural number, as format() writes an int
RECURSIVE IntToStr(_)
IntToStr(n) == IF n < 10 THEN Digit(n) ELSE IntToStr(n \div 10) \o Digit(n % 10)

\* Pad2 without the padding (the format spec d)
Pad2_NoPad(n) == IntToStr(n)

\* the format spec 02d: zero-padded to a width of two
Pad2(n) == LET str == IntToStr(n) IN IF Len(str) < 2 THEN "0" \o str ELSE str

\* ms_to_minutes_seconds(ms)
ms_to_minutes_seconds(ms) ==
    LET total_seconds == ms \div 1000
        minutes == total_seconds \div 60
        seconds == total_seconds % 60
    IN  IntToStr(minutes) \o ":" \o Pad2(seconds)

\* ", ".join(names)
RECURSIVE JoinComma(_)
JoinComma(names) ==
    IF names = <<>> THEN ""
    ELSE IF Len(names) = 1 THEN names[1]
    ELSE names[1] \o ", " \o JoinComma(Tail(names))

StrValue(text) == [kind |-> "str", text |-> text]
Raised == [kind |-> "raise"]

\* a dict (or None) is falsy when it is None or empty
Falsy(td) == td.kind = "None" \/ (td.kind = "dict" /\ td.has = {})

\* format_track_info(track_data): None, the line, or an exception (item is null).
\* The line's leading note emoji is left out of the text.
format_track_info(td) ==
    IF Falsy(td) THEN NoneValue
    ELSE IF ~(IF "is_playing" \in td.has THEN td.is_playing ELSE TRUE) THEN NoneValue
    ELSE LET item == IF "item" \in td.has THEN td.item ELSE EmptyItem
         IN  IF item.kind = "null" THEN Raised
             ELSE LET artists == JoinComma(IF "artists" \in item.has THEN item.artists ELSE <<>>)
                      track_name == IF "name" \in item.has THEN item.name ELSE "Unknown Track"
                      album == IF "album" \in item.has THEN item.album ELSE Album({}, "")
                      album_name == IF "name" \in album.has THEN album.name ELSE "Unknown Album"
                      urls == IF "external_urls" \in item.has THEN item.external_urls
                              ELSE ExternalUrls({}, "")
                      url == IF "spotify" \in urls.has THEN urls.spotify ELSE ""
                      url_text == IF url # "" THEN "Listen: " \o url ELSE ""
                      duration_ms == IF "duration_ms" \in item.has THEN item.duration_ms ELSE 0
                      progress_ms == IF "progress_ms" \in td.has THEN td.progress_ms ELSE 0
                      current_position == ms_to_minutes_seconds(progress_ms)
                      total_duration == ms_to_minutes_seconds(duration_ms)
                  IN  StrValue("Now playing: " \o artists \o " - " \o track_name
                               \o " | (from " \o album_name \o ") | Progress: "
                               \o current_position \o "/" \o total_duration
                               \o " | " \o url_text)

----------------------------------------------------------------------------
(* The /np command *)

\* the body of np_command_cb's try block; "raise": an exception left the block
NpTry(sp, m, t, tokResp, getResp, browserOk) ==
    IF ~sp THEN Effect(m, "raise")
    ELSE LET g == get_current_track(m, t, tokResp, getResp, browserOk)
         IN  IF g.ret = "raise" THEN g
             ELSE IF Falsy(g.result)
             THEN [g EXCEPT !.logs = @ \o <<"Couldn't get current track">>,
                            !.ret = "WEECHAT_RC_OK"]
             ELSE LET track_info == format_track_info(g.result)
                  IN  IF track_info.kind = "raise" THEN [g EXCEPT !.ret = "raise"]
                      ELSE IF track_info.kind = "str" /\ track_info.text # ""
                      THEN [g EXCEPT !.chat = @ \o <<track_info.text>>,
                                     !.ret = "WEECHAT_RC_OK"]
                      ELSE [g EXCEPT !.logs = @ \o <<"No track currently playing">>,
                                     !.ret = "WEECHAT_RC_OK"]

\* np_command_cb without its try/except
np_command_cb_NoCatch(sp, m, t, tokResp, getResp, browserOk) ==
    NpTry(sp, m, t, tokResp, getResp, browserOk)

\* np_command_cb(data, buffer, args): except Exception logs and falls through
\* to the return of WEECHAT_RC_OK
np_command_cb(sp, m, t, tokResp, getResp, browserOk) ==
    LET r == NpTry(sp, m, t, tokResp, getResp, browserOk)
    IN  IF r.ret = "raise"
        THEN [r EXCEPT !.logs = @ \o <<"Error in np_command_cb">>, !.ret = "WEECHAT_RC_OK"]
        ELSE r

----------------------------------------------------------------------------
(* The program as a state machine *)

ClientId == <<"client_id", "id">>
ClientSecret == <<"client_secret", "secret">>

\* contents the credentials file may be given: with refresh_token among
\* other fields, without refresh_token, with refresh_token written twice,
\* not JSON
CredFiles ==
    {JsonFile(<<ClientId, <<"refresh_token", "rt0">>, ClientSecret, <<"scope", "np">>>>),
     JsonFile(<<ClientId, ClientSecret>>),
     JsonFile(<<<<"refresh_token", "old">>, ClientId, ClientSecret, <<"refresh_token", "rt0">>>>),
     MalformedFile}

\* at start it may also lack client_secret, or not be there
InitCredFiles == CredFiles \cup {JsonFile(<<ClientId>>), MissingFile}

CacheFiles == {NoCache, CacheText("rt0\n")}

Idle == [op |-> "idle"]

PendingValue == [kind |-> "pending"]

\* the state a call reads and may change
Current == Machine(access_token, expires_at, refresh_token, credFile, cacheFile)

\* a call returned with effect e: the state takes e.m and call describes it
Returned(op, e) ==
    /\ access_token' = e.m.access_token
    /\ expires_at' = e.m.expires_at
    /\ refresh_token' = e.m.refresh_token
    /\ credFile' = e.m.cred
    /\ cacheFile' = e.m.cache
    /\ call' = [op |-> op, sp |-> spotify, pre |-> Current, eff |-> e]
    /\ UNCHANGED <<spotify, now, track_data, formatted>>

\* module start: spotify = SpotifyClient(), or None when load_credentials raised
Init ==
    /\ credFile \in InitCredFiles
    /\ cacheFile \in CacheFiles
    /\ LET loaded == load_credentials(credFile, cacheFile)
       IN  /\ spotify = loaded.ok
           /\ refresh_token = loaded.refresh_token
    /\ access_token = None
    /\ expires_at = 0
    /\ now = 0
    /\ call = Idle
    /\ track_data = NoneValue
    /\ formatted = NoneValue

\* time passes
Tick ==
    /\ \E d \in ClockSteps : now + d <= MaxTicks * d /\ now' = now + d
    /\ call' = Idle
    /\ UNCHANGED <<spotify, access_token, expires_at, refresh_token, credFile,
                   cacheFile, track_data, formatted>>

\* the other consumer of the Limnoria files rewrites the credentials file
LimnoriaWrites ==
    /\ \E f \in CredFiles : f # credFile /\ credFile' = f
    /\ call' = Idle
    /\ UNCHANGED <<spotify, access_token, expires_at, refresh_token, cacheFile,
                   now, track_data, formatted>>

\* The inputs a call consumes: a token response when it posts, whether the
\* browser opens when it re-authenticates, a resource response when it fetches
BrowserInputs(resp) ==
    IF resp.kind = "http" /\ resp.status # 200 /\ resp.json /\ resp.error = "invalid_grant"
    THEN BOOLEAN ELSE {TRUE}

TokenInputs(sp, m, t) ==
    IF sp /\ NeedsRefresh(m, t) THEN TokenResponses ELSE {NoRequest}

GetInputs(sp, m, t, tokResp) ==
    IF sp /\ (~NeedsRefresh(m, t) \/ refresh_access_token(m, t, tokResp, TRUE).ret = "true")
    THEN GetResponses ELSE {NoRequest}

ExchangeCode ==
    /\ spotify
    /\ \E resp \in TokenResponses :
          Returned("exchange_code_for_token", exchange_code_for_token(Current, now, resp))

RefreshAccessToken ==
    /\ spotify
    /\ \E resp \in TokenResponses :
          \E browserOk \in BrowserInputs(resp) :
              Returned("refresh_access_token",
                       refresh_access_token(Current, now, resp, browserOk))

GetCurrentTrack ==
    /\ spotify
    /\ \E tokResp \in TokenInputs(spotify, Current, now) :
          \E browserOk \in BrowserInputs(tokResp) :
              \E getResp \in GetInputs(spotify, Current, now, tokResp) :
                  Returned("get_current_track",
                           get_current_track(Current, now, tokResp, getResp, browserOk))

NpCommand ==
    \E tokResp \in TokenInputs(spotify, Current, now) :
        \E browserOk \in BrowserInputs(tokResp) :
            \E getResp \in GetInputs(spotify, Current, now, tokResp) :
                Returned("np_command_cb",
                         np_command_cb(spotify, Current, now, tokResp, getResp, browserOk))

Next ==
    \/ Tick
    \/ LimnoriaWrites
    \/ ExchangeCode
    \/ RefreshAccessToken
    \/ GetCurrentTrack
    \/ NpCommand

Spec == Init /\ [][Next]_vars

----------------------------------------------------------------------------
(* The formatter on its own: track_data is drawn from the statuses of the  *)
(* data model (is_playing present; item, its fields and progress_ms        *)
(* present, empty or missing) and format_track_info is applied to it.      *)

Subsets(S) == SUBSET S

ArtistLists ==
    UNION {[1..n -> {"B", "C"}] : n \in 0..MaxArtists}

FormatItems ==
    {Item(h, nm, al, ar, ur, du) :
        h \in Subsets({"name", "album", "artists", "external_urls", "duration_ms"}),
        nm \in {"", "X"},
        al \in {Album({}, ""), Album({"name"}, "A")},
        ar \in ArtistLists,
        ur \in {ExternalUrls({}, ""), ExternalUrls({"spotify"}, ""), ExternalUrls({"spotify"}, "u")},
        du \in {9000, 185000}}

FormatInputs ==
    {NoneValue}
    \cup {TrackData({"is_playing"} \cup h, ip, pr, it) :
            h \in Subsets({"progress_ms", "item"}),
            ip \in BOOLEAN,
            pr \in {0, 65000, 3599999},
            it \in FormatItems}

InitFormat ==
    /\ spotify = FALSE
    /\ access_token = None
    /\ expires_at = 0
    /\ refresh_token = None
    /\ credFile = MissingFile
    /\ cacheFile = NoCache
    /\ now = 0
    /\ call = Idle
    /\ track_data \in FormatInputs
    /\ formatted = PendingValue

FormatTrackInfo ==
    /\ formatted = PendingValue
    /\ formatted' = format_track_info(track_data)
    /\ UNCHANGED <<spotify, access_token, expires_at, refresh_token, credFile,
                   cacheFile, now, call, track_data>>

NextFormat == FormatTrackInfo

SpecFormat == InitFormat /\ [][NextFormat]_vars

----------------------------------------------------------------------------
(* Properties.  call describes the call that has just returned: now is the *)
(* time it ran at, call.pre the state it started from, call.eff what it    *)
(* did.                                                                    *)

Fetching == call.op \in {"get_current_track", "np_command_cb"} /\ call.sp

Count(seq, x) == Cardinality({i \in 1..Len(seq) : seq[i] = x})

\* C1: a get_current_track() that starts with an access token held and
\* expires_at more than 60 seconds after the current time makes no refresh
\* request: its only request is the resource GET, sent with the held token.
C1_NoRefreshWhileFresh ==
    (Fetching /\ call.pre.access_token # None
              /\ call.pre.expires_at > now + SafetyMargin)
    => /\ call.eff.refreshRet = "not called"
       /\ call.eff.tokResp = NoRequest
       /\ call.eff.events = <<"GET currently-playing">>
       /\ call.eff.getToken = call.pre.access_token

C1_Witness ==
    /\ call.op = "get_current_track"
    /\ call.pre.access_token = "at2"
    /\ call.pre.expires_at > now + SafetyMargin
    /\ now > 0
    /\ call.eff.events = <<"GET currently-playing">>

\* the held token is valid by the data-model rule: now < expires_at - 60
ValidByRule == call.pre.access_token # None /\ now < call.pre.expires_at - SafetyMargin

\* C2: a get_current_track() that starts with a token that is not valid by
\* the data-model rule (no token, or now >= expires_at - 60) calls
\* refresh_access_token() before any resource GET, and issues no GET when the
\* refresh fails.
C2_RefreshWhenNotValid ==
    (Fetching /\ ~ValidByRule)
    => /\ call.eff.events # <<>>
       /\ call.eff.events[1] = "POST refresh_token"
       /\ (call.eff.refreshRet # "true"
             => Count(call.eff.events, "GET currently-playing") = 0)

\* C3: for every non-200 response to the refresh request,
\* refresh_access_token() returns false, having called start_authentication()
\* exactly once when the error code is invalid_grant and not at all otherwise.
C3_ReauthOnlyOnInvalidGrant ==
    (call.op = "refresh_access_token" /\ call.eff.tokResp.kind = "http"
                                      /\ call.eff.tokResp.status # 200)
    => /\ call.eff.ret = "false"
       /\ Count(call.eff.events, "start_authentication")
            = IF call.eff.tokResp.error = "invalid_grant" THEN 1 ELSE 0

\* C4: nothing is raised out of the token manager: refresh_access_token()
\* returns false for every failed token request, and get_current_track()
\* returns None for every failed refresh or failed resource GET.
C4_NoFailureRaised ==
    /\ (call.op = "refresh_access_token"
          /\ (call.eff.tokResp.kind = "netfail" \/ call.eff.tokResp.status # 200))
       => call.eff.ret = "false"
    /\ (call.op = "get_current_track"
          /\ \/ call.eff.refreshRet \notin {"not called", "true"}
             \/ call.eff.getResp.kind = "netfail"
             \/ (call.eff.getResp.kind = "http" /\ call.eff.getResp.status \notin {200, 204}))
       => (call.eff.ret = "return" /\ call.eff.result = NoneValue)

\* a track status with is_playing not false was fetched
FetchedPlaying ==
    /\ call.eff.refreshRet \in {"not called", "true"}
    /\ call.eff.getResp.kind = "http"
    /\ call.eff.getResp.status = 200
    /\ call.eff.getResp.json
    /\ call.eff.result = call.eff.getResp.body
    /\ call.eff.result.kind = "dict"
    /\ ~("is_playing" \in call.eff.result.has /\ ~call.eff.result.is_playing)

\* C5: every /np invocation returns the host's OK code, nothing propagating,
\* and emits either one chat line, only when a status with is_playing not
\* false was fetched, or no chat line and at least one log line.
C5_NpAlwaysOk ==
    call.op = "np_command_cb"
    => /\ call.eff.ret = "WEECHAT_RC_OK"
       /\ \/ (Len(call.eff.chat) = 1 /\ FetchedPlaying)
          \/ (call.eff.chat = <<>> /\ Len(call.eff.logs) >= 1)

C5_Witness ==
    /\ call.op = "np_command_cb"
    /\ call.sp
    /\ call.eff.tokResp = TokenNetFail
    /\ call.eff.ret = "WEECHAT_RC_OK"
    /\ call.eff.chat = <<>>
    /\ call.eff.logs = <<"Error in np_command_cb">>

\* the credentials file before and after the call, as a JSON reader sees them
CredBefore == JsonLoad(call.pre.cred.members)
CredAfter == JsonLoad(call.eff.m.cred.members)
HadRefreshToken == call.pre.cred.kind = "json" /\ DictHas(CredBefore, "refresh_token")

\* C6: save(token) changes in the credentials file nothing but the value of
\* a refresh_token field already there: with the field, it becomes token and
\* every other field keeps its key and value; without it, the file is left
\* as it was.
C6_SaveTouchesOnlyRefreshToken ==
    (call.op # "idle" /\ call.eff.saved # <<>>)
    => IF HadRefreshToken
       THEN /\ call.eff.m.cred.kind = "json"
            /\ DictKeys(CredAfter) = DictKeys(CredBefore)
            /\ DictGet(CredAfter, "refresh_token") = call.eff.saved[1]
            /\ \A k \in DictKeys(CredBefore) \ {"refresh_token"} :
                  DictGet(CredAfter, k) = DictGet(CredBefore, k)
       ELSE call.eff.m.cred = call.pre.cred

C6_Witness ==
    /\ call.op = "refresh_access_token"
    /\ call.eff.saved = <<"rt1">>
    /\ HadRefreshToken
    /\ "scope" \in DictKeys(CredBefore)
    /\ DictGet(CredBefore, "refresh_token") = "rt0"
    /\ DictGet(CredAfter, "refresh_token") = "rt1"

\* C7: after every save(token), whatever the credentials file holds or
\* whether it can be read, the cache file contains exactly token.
C7_CacheAlwaysWritten ==
    (call.op # "idle" /\ call.eff.saved # <<>>)
    => call.eff.m.cache = CacheText(call.eff.saved[1])

\* C8: TokenState is replaced as a whole: no call assigns access_token
\* without assigning expires_at from the same response.
C8_TokenStateWhole ==
    call.op # "idle" => (call.eff.wroteAccess => call.eff.wroteExpires)

\* what /np does with a resource response, the response itself left out
NpOutcome(tokResp, getResp, browserOk) ==
    [np_command_cb(spotify, Current, now, tokResp, getResp, browserOk)
        EXCEPT !.getResp = NoRequest]

\* C9: in every state and for every refresh outcome that lets the fetch
\* happen, /np answering a 204 does exactly what it does answering a 200 with
\* {is_playing: false}: same status, no chat line, the same log lines ending
\* in "No track currently playing", the same token and file state.
C9_NoContentIsNotPlaying ==
    \A tokResp \in TokenInputs(spotify, Current, now) :
      \A browserOk \in BrowserInputs(tokResp) :
        GetInputs(spotify, Current, now, tokResp) = GetResponses
        => LET a == NpOutcome(tokResp, Get204, browserOk)
               b == NpOutcome(tokResp, GetJson(200, IsPlayingFalse), browserOk)
           IN  /\ a = b
               /\ a.result = IsPlayingFalse
               /\ format_track_info(a.result) = NoneValue
               /\ a.chat = <<>>
               /\ a.logs # <<>>
               /\ a.logs[Len(a.logs)] = "No track currently playing"
               /\ a.ret = "WEECHAT_RC_OK"

C9_Witness ==
    /\ call.op = "np_command_cb"
    /\ call.eff.getResp = Get204
    /\ call.eff.result = IsPlayingFalse
    /\ call.eff.chat = <<>>
    /\ call.eff.logs = <<"No track currently playing">>

\* the reference rendering of the formatter's contract
RefTime(ms) ==
    LET secs == ms \div 1000
    IN  ToString(secs \div 60) \o ":"
        \o (IF secs % 60 < 10 THEN "0" ELSE "") \o ToString(secs % 60)

RECURSIVE RefJoin(_)
RefJoin(names) ==
    IF Len(names) = 0 THEN ""
    ELSE IF Len(names) = 1 THEN names[1]
    ELSE RefJoin(SubSeq(names, 1, Len(names) - 1)) \o ", " \o names[Len(names)]

RefRender(td) ==
    IF td.kind = "None" \/ ~td.is_playing THEN NoneValue
    ELSE LET it == td.item
             hasItem == "item" \in td.has
             has(k) == hasItem /\ k \in it.has
             url == IF has("external_urls") /\ "spotify" \in it.external_urls.has
                    THEN it.external_urls.spotify ELSE ""
         IN  [kind |-> "str",
              text |-> "Now playing: "
                       \o RefJoin(IF has("artists") THEN it.artists ELSE <<>>)
                       \o " - " \o (IF has("name") THEN it.name ELSE "Unknown Track")
                       \o " | (from "
                       \o (IF has("album") /\ "name" \in it.album.has
                           THEN it.album.name ELSE "Unknown Album")
                       \o ") | Progress: "
                       \o RefTime(IF "progress_ms" \in td.has THEN td.progress_ms ELSE 0)
                       \o "/"
                       \o RefTime(IF has("duration_ms") THEN it.duration_ms ELSE 0)
                       \o " | "
                       \o (IF url = "" THEN "" ELSE "Listen: " \o url)]

\* C10: format(status) is the reference rendering: absent exactly when the
\* status is absent or is_playing is false, otherwise the one line with the
\* artists comma-joined in order, the track and album names or their
\* defaults, progress and duration as minutes:seconds with two-digit
\* seconds, and the Listen segment exactly when the URL is not empty.
C10_FormatIsReference ==
    formatted # PendingValue
    => /\ formatted = RefRender(track_data)
       /\ (formatted = NoneValue <=> (track_data.kind = "None" \/ ~track_data.is_playing))
       /\ (track_data = ExampleTrack
             => formatted.text
                  = "Now playing: B, C - X | (from A) | Progress: 1:05/3:05 | Listen: u")

C10_Witness ==
    /\ track_data = ExampleTrack
    /\ formatted = [kind |-> "str",
                    text |-> "Now playing: B, C - X | (from A) | Progress: 1:05/3:05 | Listen: u"]

====
